---- MODULE Spec2Model ----
(***************************************************************************)
(* Window derivation, lookup, grouped listing and the per-connection cache *)
(* of diwata's intel crate (src/intel/src/window.rs) together with its     *)
(* caller Context::create (src/server/src/context.rs).                     *)
(*                                                                         *)
(* Two specifications share the variables:                                 *)
(*   SpecDerive - the pure functions of window.rs applied to bounded table *)
(*                lists;                                                   *)
(*   Spec       - threads calling Context::create and                      *)
(*                get_grouped_windows_using_cache against CACHE_POOL.      *)
(***************************************************************************)
EXTENDS Integers, Sequences, FiniteSets, TLC

VARIABLES
    tables,     \* SpecDerive: the Vec<Table> handed to the pure functions
    windows,    \* SpecDerive: the Vec<Window> derive_all_windows returned
    dpc,        \* SpecDerive: "input", then "derived", then "called"
    out,        \* SpecDerive: the last pure call, its arguments and result
    cache,      \* Spec: CACHE_POOL, db_url -> [tables, windows] (Options)
    lock,       \* Spec: holder of the CACHE_POOL mutex, <<>> when free
    pc,         \* Spec: each thread's position in its call
    op,         \* Spec: the entry point each thread is running
    url,        \* Spec: the db_url of each thread's call
    ret,        \* Spec: return value of the cache accessor last called
    result,     \* Spec: the value the entry point returns to its caller
    ctx,        \* Spec: windows / tables gathered by Context::create
    before,     \* history: cache entry of url[t] when t took the lock
    io,         \* history: outcomes of the schema-layer calls of t's call
    loads,      \* history: loader invocations per db_url
    okLoads,    \* history: successful loads per db_url
    derivs,     \* history: derive_all_windows runs per db_url
    first,      \* history: first window list returned per db_url
    dbver,      \* environment: which schema the database of db_url has now
    calls       \* number of calls started so far

dvars == <<tables, windows, dpc, out>>
cvars == <<cache, lock, pc, op, url, ret, result, ctx, before, io,
           loads, okLoads, derivs, first, dbver, calls>>
vars == <<tables, windows, dpc, out, cache, lock, pc, op, url, ret, result,
          ctx, before, io, loads, okLoads, derivs, first, dbver, calls>>

----------------------------------------------------------------------------
(* Bounds *)

MaxTables == 4
NumThreads == 2
MaxCalls == 3

----------------------------------------------------------------------------
(* Option and Result *)

None == <<>>
Some(x) == <<x>>
Ok(v) == [ok |-> TRUE, val |-> v]
Err(e) == [ok |-> FALSE, val |-> e]

----------------------------------------------------------------------------
(* rustorm data: TableName and Table.  A Table carries what the relationship *)
(* classifier answers for it (worthy, one_one, has_one, has_many, indirect), *)
(* declared by table identity and resolved against the table list.           *)

TableName(schema, name) == [schema |-> schema, name |-> name]

Table(tn, comment, is_view, columns, worthy, one_one, has_one, has_many, indirect) ==
    [name |-> tn, comment |-> comment, is_view |-> is_view, columns |-> columns,
     worthy |-> worthy, one_one |-> one_one, has_one |-> has_one,
     has_many |-> has_many, indirect |-> indirect]

N_product == TableName(Some("public"), "product")
N_Product == TableName(Some("public"), "Product")
N_bproduct == TableName(Some("bazaar"), "product")
N_tag == TableName(Some("public"), "tag")
N_btag == TableName(Some("bazaar"), "tag")
N_a_product_tag == TableName(Some("a"), "product_tag")
N_b_product_tag == TableName(Some("b"), "product_tag")
N_review_tag == TableName(None, "review_tag")
N_ghost == TableName(Some("public"), "ghost")

Link(linker, target) == [linker |-> linker, target |-> target]

T_product ==
    Table(N_product, Some("Products"), FALSE, {"product_id"}, TRUE,
          <<N_review_tag>>, <<N_btag>>, <<N_a_product_tag>>,
          <<Link(N_a_product_tag, N_tag), Link(N_b_product_tag, N_tag),
            Link(N_review_tag, N_tag), Link(N_a_product_tag, N_btag)>>)
T_product_view ==
    Table(N_product, None, TRUE, {"name"}, TRUE, <<>>, <<>>, <<>>, <<>>)
T_tag ==
    Table(N_tag, Some("Tags"), FALSE, {"tag_id"}, TRUE, <<>>, <<>>, <<>>,
          <<Link(N_a_product_tag, N_product)>>)
T_btag ==
    Table(N_btag, None, TRUE, {"tagb_id"}, TRUE, <<>>, <<N_product>>, <<>>, <<>>)
T_a_product_tag ==
    Table(N_a_product_tag, None, FALSE, {"pt_id"}, FALSE, <<>>, <<>>, <<>>, <<>>)
T_b_product_tag ==
    Table(N_b_product_tag, None, FALSE, {"pt_id"}, FALSE, <<>>, <<>>, <<>>, <<>>)
T_review_tag ==
    Table(N_review_tag, Some("Review tags"), FALSE, {"review_id"}, TRUE,
          <<>>, <<>>, <<>>, <<>>)

TableUniverse ==
    {T_product, T_product_view, T_tag, T_btag, T_a_product_tag,
     T_b_product_tag, T_review_tag}

TableLists == UNION {[1..n -> TableUniverse] : n \in 1..MaxTables}

QueryNames ==
    {N_product, N_Product, N_bproduct, N_tag, N_btag, N_a_product_tag,
     N_review_tag}

ColumnNames == {"product_id", "name", "tag_id", "tagb_id", "pt_id", "review_id", "missing"}

(* SchemaContent of rustorm: a schema with its table names and view names *)
SchemaContent(schema, tablenames, views) ==
    [schema |-> schema, tablenames |-> tablenames, views |-> views]

SC_public == SchemaContent("public", <<N_tag, N_ghost>>, <<N_product>>)
SC_bazaar == SchemaContent("bazaar", <<N_bproduct>>, <<N_btag>>)
SC_a == SchemaContent("a", <<N_a_product_tag>>, <<>>)

Groupings ==
    {<<>>, <<SC_public>>, <<SC_bazaar>>, <<SC_a>>, <<SC_public, SC_bazaar>>,
     <<SC_bazaar, SC_public>>, <<SC_a, SC_public>>, <<SC_public, SC_a, SC_bazaar>>}

----------------------------------------------------------------------------
(* Collaborators of window.rs: table_intel and tab *)

(* table_intel::get_table: the first table of the list with that identity *)
get_table(table_name, all_tables) ==
    LET hits == {i \in 1..Len(all_tables) : all_tables[i].name = table_name}
    IN IF hits = {} THEN None
       ELSE Some(all_tables[CHOOSE i \in hits : \A j \in hits : i <= j])

Present(names, all_tables) ==
    SelectSeq(names, LAMBDA n : get_table(n, all_tables) # None)

Resolve(names, all_tables) ==
    LET p == Present(names, all_tables)
    IN [k \in 1..Len(p) |-> get_table(p[k], all_tables)[1]]

is_window(table, all_tables) == table.worthy
get_one_one_tables(table, all_tables) == Resolve(table.one_one, all_tables)
get_has_one_tables(table, all_tables) == Resolve(table.has_one, all_tables)
get_has_many_tables(table, all_tables) == Resolve(table.has_many, all_tables)

(* IndirectTable { linker, indirect_table }: both are tables of the list *)
get_indirect_tables(table, all_tables) ==
    LET p == SelectSeq(table.indirect,
                       LAMBDA l : /\ get_table(l.linker, all_tables) # None
                                  /\ get_table(l.target, all_tables) # None)
    IN [k \in 1..Len(p) |->
           [linker |-> get_table(p[k].linker, all_tables)[1],
            indirect_table |-> get_table(p[k].target, all_tables)[1]]]

(* Tab::from_table(table, name, tables) *)
Tab_from_table(table, name, all_tables) ==
    [name |-> IF name = None THEN table.name.name ELSE name[1],
     description |-> table.comment,
     table_name |-> table.name,
     is_view |-> table.is_view,
     columns |-> table.columns]

Tab_has_column_name(tab, column_name) == column_name \in tab.columns

----------------------------------------------------------------------------
(* window.rs *)

(* format!("{} (via {})", a, b) *)
Format(a, b) == a \o " (via " \o b \o ")"


(* variant: the count test is off by one (matched >= 1) *)
has_repeating_tab_off_by_one(table_name, indirect) ==
    LET matched == Cardinality({i \in 1..Len(indirect) :
                                   indirect[i].indirect_table.name = table_name})
    IN IF matched >= 1 THEN TRUE ELSE FALSE

has_repeating_tab(table_name, indirect) ==
    LET matched == Cardinality({i \in 1..Len(indirect) :
                                   indirect[i].indirect_table.name = table_name})
    IN IF matched > 1 THEN TRUE ELSE FALSE

IndirectTab(t, indirect, all_tables) ==
    LET has_repeat == has_repeating_tab(t.indirect_table.name, indirect)
        tab_name == IF has_repeat
                    THEN Some(Format(t.indirect_table.name.name, t.linker.name.name))
                    ELSE None
    IN <<t.linker.name, Tab_from_table(t.indirect_table, tab_name, all_tables)>>


(* variant: is_view is left at its default instead of copied from main_tab *)
Window_from_tables_default_view(main_table, one_one, has_one, has_many, indirect, all_tables) ==
    LET main_tab == Tab_from_table(main_table, None, all_tables)
    IN [name |-> main_tab.name,
        description |-> main_tab.description,
        group |-> main_tab.table_name.schema,
        main_tab |-> main_tab,
        has_one_tabs |-> [k \in 1..Len(has_one) |-> Tab_from_table(has_one[k], None, all_tables)],
        one_one_tabs |-> [k \in 1..Len(one_one) |-> Tab_from_table(one_one[k], None, all_tables)],
        has_many_tabs |-> [k \in 1..Len(has_many) |-> Tab_from_table(has_many[k], None, all_tables)],
        indirect_tabs |-> [k \in 1..Len(indirect) |-> IndirectTab(indirect[k], indirect, all_tables)],
        is_view |-> FALSE]

Window_from_tables(main_table, one_one, has_one, has_many, indirect, all_tables) ==
    LET main_tab == Tab_from_table(main_table, None, all_tables)
        one_one_tabs == [k \in 1..Len(one_one) |-> Tab_from_table(one_one[k], None, all_tables)]
        has_one_tabs == [k \in 1..Len(has_one) |-> Tab_from_table(has_one[k], None, all_tables)]
        has_many_tabs == [k \in 1..Len(has_many) |-> Tab_from_table(has_many[k], None, all_tables)]
        is_view == main_tab.is_view
        indirect_tabs == [k \in 1..Len(indirect) |-> IndirectTab(indirect[k], indirect, all_tables)]
    IN [name |-> main_tab.name,
        description |-> main_tab.description,
        group |-> main_tab.table_name.schema,
        main_tab |-> main_tab,
        has_one_tabs |-> has_one_tabs,
        one_one_tabs |-> one_one_tabs,
        has_many_tabs |-> has_many_tabs,
        indirect_tabs |-> indirect_tabs,
        is_view |-> is_view]


(* variant: has-one and one-one tabs are searched too *)
Window_has_column_name_all_tabs(w, column_name) ==
    \/ Tab_has_column_name(w.main_tab, column_name)
    \/ \E k \in 1..Len(w.has_one_tabs) : Tab_has_column_name(w.has_one_tabs[k], column_name)
    \/ \E k \in 1..Len(w.one_one_tabs) : Tab_has_column_name(w.one_one_tabs[k], column_name)
    \/ \E k \in 1..Len(w.has_many_tabs) : Tab_has_column_name(w.has_many_tabs[k], column_name)
    \/ \E k \in 1..Len(w.indirect_tabs) : Tab_has_column_name(w.indirect_tabs[k][2], column_name)

Window_has_column_name(w, column_name) ==
    \/ Tab_has_column_name(w.main_tab, column_name)
    \/ \E k \in 1..Len(w.has_many_tabs) : Tab_has_column_name(w.has_many_tabs[k], column_name)
    \/ \E k \in 1..Len(w.indirect_tabs) : Tab_has_column_name(w.indirect_tabs[k][2], column_name)

WindowOf(table, all_tables) ==
    Window_from_tables(table,
                       get_one_one_tables(table, all_tables),
                       get_has_one_tables(table, all_tables),
                       get_has_many_tables(table, all_tables),
                       get_indirect_tables(table, all_tables),
                       all_tables)

RECURSIVE DeriveLoop(_, _, _)
DeriveLoop(all_tables, i, all_windows) ==
    IF i > Len(all_tables) THEN all_windows
    ELSE IF is_window(all_tables[i], all_tables)
         THEN DeriveLoop(all_tables, i + 1,
                         Append(all_windows, WindowOf(all_tables[i], all_tables)))
         ELSE DeriveLoop(all_tables, i + 1, all_windows)


(* variant: a table whose identity already has a Window is skipped *)
RECURSIVE DedupLoop(_, _, _)
DedupLoop(all_tables, i, all_windows) ==
    IF i > Len(all_tables) THEN all_windows
    ELSE IF /\ is_window(all_tables[i], all_tables)
            /\ \A k \in 1..Len(all_windows) :
                  all_windows[k].main_tab.table_name # all_tables[i].name
         THEN DedupLoop(all_tables, i + 1,
                        Append(all_windows, WindowOf(all_tables[i], all_tables)))
         ELSE DedupLoop(all_tables, i + 1, all_windows)

derive_all_windows_dedup(all_tables) == DedupLoop(all_tables, 1, <<>>)

derive_all_windows(all_tables) == DeriveLoop(all_tables, 1, <<>>)


(* variant: the comparison looks at the table name and not at the schema *)
get_window_by_name(table_name, ws) ==
    LET hits == {i \in 1..Len(ws) : ws[i].main_tab.table_name.name = table_name.name}
    IN IF hits = {} THEN None
       ELSE Some(ws[CHOOSE i \in hits : \A j \in hits : i <= j])

get_window(table_name, ws) ==
    LET hits == {i \in 1..Len(ws) : ws[i].main_tab.table_name = table_name}
    IN IF hits = {} THEN None
       ELSE Some(ws[CHOOSE i \in hits : \A j \in hits : i <= j])

WindowName(name, table_name, is_view) ==
    [name |-> name, table_name |-> table_name, is_view |-> is_view]

RECURSIVE WindowNamesLoop(_, _, _, _)
WindowNamesLoop(names, i, all_tables, window_names) ==
    IF i > Len(names) THEN window_names
    ELSE LET table_name == names[i]
             table == get_table(table_name, all_tables)
         IN IF table # None /\ is_window(table[1], all_tables)
            THEN WindowNamesLoop(names, i + 1, all_tables,
                     Append(window_names,
                            WindowName(table_name.name, table_name, table[1].is_view)))
            ELSE WindowNamesLoop(names, i + 1, all_tables, window_names)


(* variant: the views are chained before the tables *)
GroupedWindow_views_first(sc, all_tables) ==
    [group |-> sc.schema,
     window_names |-> WindowNamesLoop(sc.views \o sc.tablenames, 1, all_tables, <<>>)]

GroupedWindow(sc, all_tables) ==
    [group |-> sc.schema,
     window_names |-> WindowNamesLoop(sc.tablenames \o sc.views, 1, all_tables, <<>>)]

(* variant: a failed grouping is taken for an empty one *)
get_grouped_windows_or_default(grouped, all_tables) ==
    IF ~grouped.ok THEN Ok(<<>>)
    ELSE Ok([g \in 1..Len(grouped.val) |-> GroupedWindow(grouped.val[g], all_tables)])

(* grouped is the Result of em.get_grouped_tables() *)
get_grouped_windows(grouped, all_tables) ==
    IF ~grouped.ok THEN Err("DbError")
    ELSE Ok([g \in 1..Len(grouped.val) |-> GroupedWindow(grouped.val[g], all_tables)])

----------------------------------------------------------------------------
(* SpecDerive: the pure functions applied to bounded inputs *)

NoCall == [op |-> "none"]

CacheIdle ==
    /\ cache = <<>> /\ lock = None /\ pc = <<>> /\ op = <<>> /\ url = <<>>
    /\ ret = <<>> /\ result = <<>> /\ ctx = <<>> /\ before = <<>>
    /\ io = <<>> /\ loads = <<>> /\ okLoads = <<>>
    /\ derivs = <<>> /\ first = <<>> /\ dbver = <<>> /\ calls = 0

InitDerive ==
    /\ tables \in TableLists
    /\ windows = <<>>
    /\ dpc = "input"
    /\ out = NoCall
    /\ CacheIdle

DeriveAllWindows ==
    /\ dpc = "input"
    /\ windows' = derive_all_windows(tables)
    /\ dpc' = "derived"
    /\ UNCHANGED <<tables, out>>
    /\ UNCHANGED cvars

GetWindow ==
    /\ dpc = "derived"
    /\ \E q \in QueryNames :
          out' = [op |-> "get_window", table_name |-> q, res |-> get_window(q, windows)]
    /\ dpc' = "called"
    /\ UNCHANGED <<tables, windows>>
    /\ UNCHANGED cvars

HasColumnName ==
    /\ dpc = "derived"
    /\ \E i \in 1..Len(windows), c \in ColumnNames :
          out' = [op |-> "has_column_name", window |-> i, column_name |-> c,
                  res |-> Window_has_column_name(windows[i], c)]
    /\ dpc' = "called"
    /\ UNCHANGED <<tables, windows>>
    /\ UNCHANGED cvars

GetGroupedWindows ==
    /\ dpc = "derived"
    /\ \E grouped \in {Ok(g) : g \in Groupings} \cup {Err("DbError")} :
          out' = [op |-> "get_grouped_windows", grouped |-> grouped,
                  res |-> get_grouped_windows(grouped, tables)]
    /\ dpc' = "called"
    /\ UNCHANGED <<tables, windows>>
    /\ UNCHANGED cvars

NextDerive ==
    \/ DeriveAllWindows
    \/ GetWindow
    \/ HasColumnName
    \/ GetGroupedWindows

SpecDerive == InitDerive /\ [][NextDerive]_vars

----------------------------------------------------------------------------
(* Spec: threads calling Context::create and get_grouped_windows_using_cache *)
(* against the process-wide CACHE_POOL.                                      *)

Threads == 1..NumThreads
DbUrls == {"postgres://db1", "postgres://db2"}
Ops == {"create", "grouped"}

(* what em.get_all_tables() finds in a database, before and after a schema
   change made by somebody else *)
SchemaVersions ==
    <<<<T_tag, T_a_product_tag, T_product>>, <<T_product_view, T_tag, T_review_tag>>>>

(* what em.get_grouped_tables() answers *)
GroupedAnswers == {Ok(<<SC_public, SC_a>>), Err("DbError")}

EmptyCache == [tables |-> None, windows |-> None]
NoCtx == [tables |-> None, windows |-> None]
NoRet == Ok(<<>>)

DeriveIdle ==
    /\ tables = <<>> /\ windows = <<>> /\ dpc = "off" /\ out = NoCall

Init ==
    /\ DeriveIdle
    /\ cache = [u \in DbUrls |-> EmptyCache]
    /\ lock = None
    /\ pc = [t \in Threads |-> "idle"]
    /\ op = [t \in Threads |-> "create"]
    /\ url = [t \in Threads |-> CHOOSE u \in DbUrls : TRUE]
    /\ ret = [t \in Threads |-> NoRet]
    /\ result = [t \in Threads |-> NoRet]
    /\ ctx = [t \in Threads |-> NoCtx]
    /\ before = [t \in Threads |-> EmptyCache]
    /\ io = [t \in Threads |-> <<>>]
    /\ loads = [u \in DbUrls |-> 0]
    /\ okLoads = [u \in DbUrls |-> 0]
    /\ derivs = [u \in DbUrls |-> 0]
    /\ first = [u \in DbUrls |-> None]
    /\ dbver = [u \in DbUrls |-> 1]
    /\ calls = 0

(* context.rs 16-18 / the caller of get_grouped_windows_using_cache: a call
   starts; the pool handles of Context::create may fail before the cache is
   touched *)
Begin(t) ==
    /\ pc[t] = "idle"
    /\ calls < MaxCalls
    /\ calls' = calls + 1
    /\ \E o \in Ops, u \in DbUrls, pool_ok \in BOOLEAN :
          /\ (o = "grouped") => pool_ok
          /\ op' = [op EXCEPT ![t] = o]
          /\ url' = [url EXCEPT ![t] = u]
          /\ pc' = [pc EXCEPT ![t] = IF pool_ok THEN "lock" ELSE "return"]
          /\ result' = [result EXCEPT ![t] = IF pool_ok THEN NoRet ELSE Err("ServiceError")]
    /\ UNCHANGED <<cache, lock, ret, ctx, before, io, loads, okLoads, derivs, first, dbver>>
    /\ UNCHANGED dvars

(* variant: the accessors are called without holding the mutex *)
LockNoMutex(t) ==
    /\ pc[t] = "lock"
    /\ lock' = Some(t)
    /\ before' = [before EXCEPT ![t] = cache[url[t]]]
    /\ pc' = [pc EXCEPT ![t] = IF op[t] = "create" THEN "cw_call" ELSE "ct_call"]
    /\ UNCHANGED <<cache, op, url, ret, result, ctx, io, loads, okLoads, derivs,
                   first, dbver, calls>>
    /\ UNCHANGED dvars

(* CACHE_POOL.lock().unwrap() *)
Lock(t) ==
    /\ pc[t] = "lock"
    /\ lock = None
    /\ lock' = Some(t)
    /\ before' = [before EXCEPT ![t] = cache[url[t]]]
    /\ pc' = [pc EXCEPT ![t] = IF op[t] = "create" THEN "cw_call" ELSE "ct_call"]
    /\ UNCHANGED <<cache, op, url, ret, result, ctx, io, loads, okLoads, derivs,
                   first, dbver, calls>>
    /\ UNCHANGED dvars

(* CachePool::get_cached_windows: a hit returns the stored list, a miss goes
   on to populate the entry *)
GetCachedWindows(t) ==
    /\ pc[t] = "cw_call"
    /\ IF cache[url[t]].windows # None
       THEN /\ ret' = [ret EXCEPT ![t] = Ok(cache[url[t]].windows[1])]
            /\ pc' = [pc EXCEPT ![t] = "cw_ret"]
       ELSE /\ pc' = [pc EXCEPT ![t] = "cw_load"]
            /\ UNCHANGED ret
    /\ UNCHANGED <<cache, lock, op, url, result, ctx, before, io, loads, okLoads,
                   derivs, first, dbver, calls>>
    /\ UNCHANGED dvars

(* CachePool::get_cached_tables: a hit returns the stored list, a miss goes on
   to populate the entry *)
GetCachedTables(t) ==
    /\ pc[t] = "ct_call"
    /\ IF cache[url[t]].tables # None
       THEN /\ ret' = [ret EXCEPT ![t] = Ok(cache[url[t]].tables[1])]
            /\ pc' = [pc EXCEPT ![t] = "ct_ret"]
       ELSE /\ pc' = [pc EXCEPT ![t] = "ct_load"]
            /\ UNCHANGED ret
    /\ UNCHANGED <<cache, lock, op, url, result, ctx, before, io, loads, okLoads,
                   derivs, first, dbver, calls>>
    /\ UNCHANGED dvars

(* the miss path of either accessor: load the tables from the schema layer,
   store them, derive the windows from the freshly loaded tables, store them;
   a failed load stores nothing and is returned *)
Populate(t) ==
    /\ pc[t] \in {"cw_load", "ct_load"}
    /\ LET u == url[t]
           back == IF pc[t] = "cw_load" THEN "cw_ret" ELSE "ct_ret"
       IN /\ loads' = [loads EXCEPT ![u] = @ + 1]
          /\ pc' = [pc EXCEPT ![t] = back]
          /\ \E load_ok \in BOOLEAN :
                IF load_ok
                THEN LET loaded == SchemaVersions[dbver[u]]
                         derived == derive_all_windows(loaded)
                     IN /\ cache' = [cache EXCEPT ![u] =
                                        [tables |-> Some(loaded), windows |-> Some(derived)]]
                        /\ okLoads' = [okLoads EXCEPT ![u] = @ + 1]
                        /\ derivs' = [derivs EXCEPT ![u] = @ + 1]
                        /\ io' = [io EXCEPT ![t] = Append(@, "tables_ok")]
                        /\ ret' = [ret EXCEPT ![t] =
                                      IF pc[t] = "cw_load" THEN Ok(derived) ELSE Ok(loaded)]
                ELSE /\ io' = [io EXCEPT ![t] = Append(@, "tables_err")]
                     /\ ret' = [ret EXCEPT ![t] = Err("DbError")]
                     /\ UNCHANGED <<cache, okLoads, derivs>>
    /\ UNCHANGED <<lock, op, url, result, ctx, before, first, dbver, calls>>
    /\ UNCHANGED dvars

(* variant: a failed get_cached_windows is taken for an empty list *)
CreateAfterWindows_or_default(t) ==
    /\ pc[t] = "cw_ret"
    /\ op[t] = "create"
    /\ LET ws == IF ret[t].ok THEN ret[t].val ELSE <<>>
       IN /\ ctx' = [ctx EXCEPT ![t].windows = Some(ws)]
          /\ first' = [first EXCEPT ![url[t]] = IF @ = None THEN Some(ws) ELSE @]
    /\ pc' = [pc EXCEPT ![t] = "ct_call"]
    /\ UNCHANGED <<cache, lock, op, url, ret, result, before, io, loads, okLoads,
                   derivs, dbver, calls>>
    /\ UNCHANGED dvars

(* context.rs 20: let windows = cache_pool.get_cached_windows(&em, db_url)?; *)
CreateAfterWindows(t) ==
    /\ pc[t] = "cw_ret"
    /\ op[t] = "create"
    /\ IF ret[t].ok
       THEN /\ ctx' = [ctx EXCEPT ![t].windows = Some(ret[t].val)]
            /\ first' = [first EXCEPT ![url[t]] = IF @ = None THEN Some(ret[t].val) ELSE @]
            /\ pc' = [pc EXCEPT ![t] = "ct_call"]
            /\ UNCHANGED result
       ELSE /\ result' = [result EXCEPT ![t] = Err(ret[t].val)]
            /\ pc' = [pc EXCEPT ![t] = "return"]
            /\ UNCHANGED <<ctx, first>>
    /\ UNCHANGED <<cache, lock, op, url, ret, before, io, loads, okLoads,
                   derivs, dbver, calls>>
    /\ UNCHANGED dvars

(* context.rs 21-27: let tables = cache_pool.get_cached_tables(&em, db_url)?;
   Ok(Context { em, dm, tables, windows }) *)
CreateAfterTables(t) ==
    /\ pc[t] = "ct_ret"
    /\ op[t] = "create"
    /\ IF ret[t].ok
       THEN /\ ctx' = [ctx EXCEPT ![t].tables = Some(ret[t].val)]
            /\ result' = [result EXCEPT ![t] =
                             Ok([tables |-> ret[t].val, windows |-> ctx[t].windows[1]])]
       ELSE /\ result' = [result EXCEPT ![t] = Err(ret[t].val)]
            /\ UNCHANGED ctx
    /\ pc' = [pc EXCEPT ![t] = "return"]
    /\ UNCHANGED <<cache, lock, op, url, ret, before, io, loads, okLoads,
                   derivs, first, dbver, calls>>
    /\ UNCHANGED dvars

(* window.rs 148: let tables = cache_pool.get_cached_tables(em, db_url)?; *)
GroupedAfterTables(t) ==
    /\ pc[t] = "ct_ret"
    /\ op[t] = "grouped"
    /\ IF ret[t].ok
       THEN /\ ctx' = [ctx EXCEPT ![t].tables = Some(ret[t].val)]
            /\ pc' = [pc EXCEPT ![t] = "grouping"]
            /\ UNCHANGED result
       ELSE /\ result' = [result EXCEPT ![t] = Err(ret[t].val)]
            /\ pc' = [pc EXCEPT ![t] = "return"]
            /\ UNCHANGED ctx
    /\ UNCHANGED <<cache, lock, op, url, ret, before, io, loads, okLoads,
                   derivs, first, dbver, calls>>
    /\ UNCHANGED dvars

(* window.rs 149-150: let grouped_window = get_grouped_windows(em, &tables)?;
   Ok(grouped_window) *)
GroupedWindows(t) ==
    /\ pc[t] = "grouping"
    /\ \E grouped \in GroupedAnswers :
          /\ io' = [io EXCEPT ![t] =
                       Append(@, IF grouped.ok THEN "grouping_ok" ELSE "grouping_err")]
          /\ result' = [result EXCEPT ![t] = get_grouped_windows(grouped, ctx[t].tables[1])]
    /\ pc' = [pc EXCEPT ![t] = "return"]
    /\ UNCHANGED <<cache, lock, op, url, ret, ctx, before, loads, okLoads,
                   derivs, first, dbver, calls>>
    /\ UNCHANGED dvars

(* the entry point returns result[t] to its caller: the MutexGuard, when
   taken, is dropped and the locals of the call are gone *)
Return(t) ==
    /\ pc[t] = "return"
    /\ lock' = IF lock = Some(t) THEN None ELSE lock
    /\ pc' = [pc EXCEPT ![t] = "idle"]
    /\ op' = [op EXCEPT ![t] = "create"]
    /\ url' = [url EXCEPT ![t] = CHOOSE u \in DbUrls : TRUE]
    /\ ret' = [ret EXCEPT ![t] = NoRet]
    /\ result' = [result EXCEPT ![t] = NoRet]
    /\ ctx' = [ctx EXCEPT ![t] = NoCtx]
    /\ before' = [before EXCEPT ![t] = EmptyCache]
    /\ io' = [io EXCEPT ![t] = <<>>]
    /\ UNCHANGED <<cache, loads, okLoads, derivs, first, dbver, calls>>
    /\ UNCHANGED dvars

(* environment: the schema of a database changes *)
SchemaChange ==
    /\ \E u \in DbUrls :
          /\ dbver[u] < Len(SchemaVersions)
          /\ dbver' = [dbver EXCEPT ![u] = @ + 1]
    /\ UNCHANGED <<cache, lock, pc, op, url, ret, result, ctx, before, io, loads,
                   okLoads, derivs, first, calls>>
    /\ UNCHANGED dvars

Next ==
    \/ \E t \in Threads : Begin(t)
    \/ \E t \in Threads : Lock(t)
    \/ \E t \in Threads : GetCachedWindows(t)
    \/ \E t \in Threads : GetCachedTables(t)
    \/ \E t \in Threads : Populate(t)
    \/ \E t \in Threads : CreateAfterWindows(t)
    \/ \E t \in Threads : CreateAfterTables(t)
    \/ \E t \in Threads : GroupedAfterTables(t)
    \/ \E t \in Threads : GroupedWindows(t)
    \/ \E t \in Threads : Return(t)
    \/ SchemaChange

Spec == Init /\ [][Next]_vars

----------------------------------------------------------------------------
(* Properties of the cache and its callers, checked under Spec *)

Range(f) == {f[i] : i \in DOMAIN f}

Returning(t) == pc[t] = "return" /\ lock = Some(t)

(* C1: once a schema load for a connection identity has succeeded the loader
   is never invoked again for it, the window derivation runs at most once for
   it, and every call of Context::create gets the window list the first one
   got, whatever the interleaving. *)
C1_LoadedAndDerivedOnce ==
    /\ [][\A u \in DbUrls : okLoads[u] > 0 => loads'[u] = loads[u]]_vars
    /\ [](\A u \in DbUrls : derivs[u] <= 1)
    /\ [](\A t \in Threads :
             /\ (op[t] = "create" /\ ctx[t].windows # None) =>
                   ctx[t].windows = first[url[t]]
             /\ (Returning(t) /\ op[t] = "create" /\ result[t].ok) =>
                   Some(result[t].val.windows) = first[url[t]])

(* a Context::create served from the cache without the loader, after an
   earlier load and after the schema of that database has changed *)
C1_Witness ==
    \E t \in Threads :
        /\ Returning(t) /\ op[t] = "create" /\ result[t].ok
        /\ io[t] = <<>>
        /\ loads[url[t]] = 1 /\ okLoads[url[t]] = 1 /\ derivs[url[t]] = 1
        /\ dbver[url[t]] = Len(SchemaVersions)
        /\ result[t].val.windows = derive_all_windows(SchemaVersions[1])
        /\ result[t].val.windows # derive_all_windows(SchemaVersions[dbver[url[t]]])

(* C2: a call in which the schema loader fails returns the failure and leaves
   the cache of that identity as it was, without table set and window set;
   a call that finds no table set for its identity invokes the loader
   (again). *)
C2_LoadFailureCachesNothing ==
    \A t \in Threads :
        Returning(t) =>
            /\ "tables_err" \in Range(io[t]) =>
                  /\ ~result[t].ok
                  /\ cache[url[t]] = before[t]
                  /\ cache[url[t]] = EmptyCache
            /\ before[t].tables = None =>
                  /\ io[t] # <<>>
                  /\ io[t][1] \in {"tables_ok", "tables_err"}

(* a call whose load fails, on an identity whose load had failed before *)
C2_Witness ==
    \E t \in Threads :
        /\ Returning(t)
        /\ io[t] = <<"tables_err">>
        /\ ~result[t].ok
        /\ loads[url[t]] = 2 /\ okLoads[url[t]] = 0

GroupingFailed(t) ==
    /\ Returning(t)
    /\ op[t] = "grouped"
    /\ "grouping_err" \in Range(io[t])

(* C10 as stated: when the grouping fails the error is propagated and the
   cache of that identity is the same after the call as before it, also when
   the call started on a cache miss for the table set. *)
C10_GroupingFailureLeavesCacheAsBefore ==
    \A t \in Threads :
        GroupingFailed(t) =>
            /\ ~result[t].ok
            /\ cache[url[t]] = before[t]

(* C10 amended: when the grouping fails the error is propagated and the failed
   grouping stores nothing: after a call that started on a cache hit the cache
   of that identity is as before; after a call that started on a miss it holds
   the table set get_cached_tables loaded earlier in the call and the windows
   derived from it. *)
C10_GroupingFailureKeepsLoadedTables ==
    \A t \in Threads :
        GroupingFailed(t) =>
            /\ result[t] = Err("DbError")
            /\ IF before[t].tables # None
               THEN /\ cache[url[t]] = before[t]
                    /\ io[t] = <<"grouping_err">>
               ELSE /\ io[t] = <<"tables_ok", "grouping_err">>
                    /\ cache[url[t]] =
                          [tables |-> ctx[t].tables,
                           windows |-> Some(derive_all_windows(ctx[t].tables[1]))]

(* a failed grouping in a call that started on a miss: the tables are cached *)
C10_Witness ==
    \E t \in Threads :
        /\ GroupingFailed(t)
        /\ before[t] = EmptyCache
        /\ ~result[t].ok
        /\ cache[url[t]].tables = Some(SchemaVersions[1])

----------------------------------------------------------------------------
(* Properties of the pure functions, checked under SpecDerive *)

WorthyTables == SelectSeq(tables, LAMBDA t : is_window(t, tables))

Derived == dpc # "input"

(* C3: the main table identities of the Windows derive_all_windows returns
   are the input tables restricted to those the classifier calls a window,
   in input order and with the same multiplicity. *)
C3_WindowsAreWorthyTablesInOrder ==
    Derived =>
        /\ Len(windows) = Len(WorthyTables)
        /\ \A k \in 1..Len(windows) :
              windows[k].main_tab.table_name = WorthyTables[k].name

(* a list with a table that is no window, a worthy table listed twice, and a
   worthy table that is also an indirect tab of another Window *)
C3_Witness ==
    /\ Derived
    /\ \E i \in 1..Len(tables) : ~is_window(tables[i], tables)
    /\ \E i, j \in 1..Len(tables) :
          i < j /\ tables[i] = tables[j] /\ is_window(tables[i], tables)
    /\ \E k, m \in 1..Len(windows) :
          /\ k # m
          /\ \E n \in 1..Len(windows[k].indirect_tabs) :
                windows[k].indirect_tabs[n][2].table_name = windows[m].main_tab.table_name
    /\ Len(windows) = 3

TargetCount(ind, table_name) ==
    Cardinality({i \in 1..Len(ind) : ind[i].indirect_table.name = table_name})

(* C4: the i-th indirect tab of a Window is paired with the linker identity of
   the i-th indirect relation of its main table; it is named
   "<target> (via <linker>)" when more than one relation of that list has the
   same target identity, and by the bare target name when exactly one has. *)
C4_IndirectTabNaming ==
    Derived =>
        \A k \in 1..Len(windows) :
            k <= Len(WorthyTables) =>
            LET ind == get_indirect_tables(WorthyTables[k], tables)
                tabs == windows[k].indirect_tabs
            IN /\ Len(tabs) = Len(ind)
               /\ \A i \in 1..Len(tabs) :
                     /\ tabs[i][1] = ind[i].linker.name
                     /\ tabs[i][2].table_name = ind[i].indirect_table.name
                     /\ TargetCount(ind, ind[i].indirect_table.name) > 1 =>
                           tabs[i][2].name =
                               ind[i].indirect_table.name.name \o " (via "
                                   \o ind[i].linker.name.name \o ")"
                     /\ TargetCount(ind, ind[i].indirect_table.name) = 1 =>
                           tabs[i][2].name = ind[i].indirect_table.name.name

(* a Window whose target is reached through two linkers (both tabs renamed)
   next to a Window whose target is reached once (bare name) *)
C4_Witness ==
    /\ Derived
    /\ \E k, m \in 1..Len(windows) :
          /\ windows[k].indirect_tabs =
                <<<<N_a_product_tag, [Tab_from_table(T_tag, None, tables)
                                         EXCEPT !.name = "tag (via product_tag)"]>>,
                  <<N_review_tag, [Tab_from_table(T_tag, None, tables)
                                      EXCEPT !.name = "tag (via review_tag)"]>>>>
          /\ Len(windows[m].indirect_tabs) = 1
          /\ windows[m].indirect_tabs[1][1] = N_a_product_tag
          /\ windows[m].indirect_tabs[1][2].table_name = N_product
          /\ windows[m].indirect_tabs[1][2].name = "product"

(* C5: the indirect tabs of one Window that share a target reached through
   distinct linking tables carry pairwise different labels, none of them the
   bare table name. *)
C5_IndirectLabelsDistinct ==
    Derived =>
        \A k \in 1..Len(windows) :
            LET tabs == windows[k].indirect_tabs
            IN \A i, j \in 1..Len(tabs) :
                  (/\ i # j
                   /\ tabs[i][2].table_name = tabs[j][2].table_name
                   /\ tabs[i][1] # tabs[j][1]) =>
                      /\ tabs[i][2].name # tabs[j][2].name
                      /\ tabs[i][2].name # tabs[i][2].table_name.name

FirstMatch(q) ==
    CHOOSE i \in 1..Len(windows) :
        /\ windows[i].main_tab.table_name = q
        /\ \A j \in 1..(i - 1) : windows[j].main_tab.table_name # q

(* C6: get_window returns the first Window of the list whose main table
   identity equals the queried one in schema and name, and absence when no
   Window has that identity. *)
C6_GetWindowExactFirst ==
    (dpc = "called" /\ out.op = "get_window") =>
        IF \E i \in 1..Len(windows) : windows[i].main_tab.table_name = out.table_name
        THEN out.res = Some(windows[FirstMatch(out.table_name)])
        ELSE out.res = None

(* two Windows of the queried identity that differ in content, and the first
   is returned *)
C6_Witness ==
    /\ dpc = "called" /\ out.op = "get_window"
    /\ out.res # None
    /\ \E i, j \in 1..Len(windows) :
          /\ i < j
          /\ windows[i].main_tab.table_name = out.table_name
          /\ windows[j].main_tab.table_name = out.table_name
          /\ windows[i] # windows[j]
          /\ out.res = Some(windows[i])

(* a query that differs from a Window only in letter case, or only in schema,
   finds nothing *)
C6_WitnessAbsent ==
    /\ dpc = "called" /\ out.op = "get_window"
    /\ out.table_name \in {N_Product, N_bproduct}
    /\ \E i \in 1..Len(windows) : windows[i].main_tab.table_name = N_product
    /\ out.res = None

InTabs(tabs, c) == \E k \in 1..Len(tabs) : c \in tabs[k].columns

(* C7: has_column_name is true exactly when the main Tab, a has-many Tab or
   an indirect Tab contains the column; a column found only in has-one or
   one-one Tabs gives false. *)
C7_HasColumnName ==
    (dpc = "called" /\ out.op = "has_column_name") =>
        LET w == windows[out.window]
            c == out.column_name
        IN out.res = (\/ c \in w.main_tab.columns
                      \/ InTabs(w.has_many_tabs, c)
                      \/ \E k \in 1..Len(w.indirect_tabs) : c \in w.indirect_tabs[k][2].columns)

(* the column is in a one-one Tab of a Window that has has-many Tabs too, in
   none of the searched Tabs, and the answer is false *)
C7_Witness ==
    /\ dpc = "called" /\ out.op = "has_column_name"
    /\ InTabs(windows[out.window].one_one_tabs, out.column_name)
    /\ Len(windows[out.window].has_many_tabs) > 0
    /\ out.res = FALSE

NameSurvives(n) ==
    /\ get_table(n, tables) # None
    /\ is_window(get_table(n, tables)[1], tables)

(* C8: get_grouped_windows returns one GroupedWindow per schema group, in the
   grouping's order; its window_names are the group's table names followed by
   its view names, restricted to the names found in the table set whose table
   is a window, each with the name's identity and the table's is_view. *)
C8_GroupedWindows ==
    (dpc = "called" /\ out.op = "get_grouped_windows" /\ out.grouped.ok) =>
        /\ out.res.ok
        /\ Len(out.res.val) = Len(out.grouped.val)
        /\ \A g \in 1..Len(out.res.val) :
              LET sc == out.grouped.val[g]
                  kept == SelectSeq(sc.tablenames \o sc.views, NameSurvives)
                  got == out.res.val[g]
              IN /\ got.group = sc.schema
                 /\ Len(got.window_names) = Len(kept)
                 /\ \A i \in 1..Len(kept) :
                       /\ got.window_names[i].table_name = kept[i]
                       /\ got.window_names[i].name = kept[i].name
                       /\ got.window_names[i].is_view = get_table(kept[i], tables)[1].is_view

(* a group with a surviving table, an unknown name and a surviving view, next
   to a group whose only table is no window *)
C8_Witness ==
    /\ dpc = "called" /\ out.op = "get_grouped_windows"
    /\ out.grouped = Ok(<<SC_public, SC_a, SC_bazaar>>)
    /\ \E i \in 1..Len(tables) : tables[i] = T_a_product_tag
    /\ out.res.ok
    /\ Len(out.res.val[1].window_names) = 2
    /\ out.res.val[1].window_names[1].table_name = N_tag
    /\ out.res.val[1].window_names[2] = WindowName("product", N_product, TRUE)
    /\ out.res.val[2].window_names = <<>>

WindowMirrorsMainTab(w) ==
    /\ w.name = w.main_tab.name
    /\ w.description = w.main_tab.description
    /\ w.group = w.main_tab.table_name.schema
    /\ w.is_view = w.main_tab.is_view
    /\ w.main_tab.name = w.main_tab.table_name.name

(* C9: in every Window the builder produced, name, description, group and
   is_view equal those of main_tab, main_tab carries the bare table name, and
   no later call changes a Window. *)
C9_WindowMirrorsMainTab ==
    /\ [](Derived => \A k \in 1..Len(windows) : WindowMirrorsMainTab(windows[k]))
    /\ [][Derived => windows' = windows]_vars

(* after a call on the derived list: the Window of a view without description
   next to the Window of a table without schema and with a description *)
C9_Witness ==
    /\ dpc = "called"
    /\ \E k, m \in 1..Len(windows) :
          /\ windows[k].is_view /\ windows[k].description = None
          /\ windows[m].group = None /\ windows[m].description # None
          /\ ~windows[m].is_view


====
